---- MODULE Spec2Model ----
(***************************************************************************)
(* Book API: an Express router for /books over a lowdb store with the      *)
(* synchronous FileSync adapter (index.js).  `db` is the state the store   *)
(* holds in memory, `file` the contents of db.json.  `req` and `resp` are  *)
(* the last request and its answer, `pre` the store and the file before    *)
(* it.  Every handler is synchronous, so one request is one atomic step.   *)
(***************************************************************************)
EXTENDS Naturals, Sequences, FiniteSets

VARIABLES db, file, pre, req, resp, faults, inflight, base, handled

vars == <<db, file, pre, req, resp, faults, inflight, base, handled>>

(* ------------------------------ bounds -------------------------------- *)

\* POST is not issued once the collection holds this many records.
MaxBooks == 2

\* At most this many file writes fail in one run.
MaxFaults == 1

(* ------------------------------ values -------------------------------- *)

\* Identifiers: what nanoid(idLength) may return and what a client may put
\* in the path or in a body.  nanoid draws at random, so any value of the
\* alphabet may come back, also one already in use.
Ids == {"a", "b"}

Titles == {"T1"}

Authors == {"A1"}

Fields == {"id", "title", "author"}

FieldValues(f) ==
  CASE f = "id" -> Ids
    [] f = "title" -> Titles
    [] f = "author" -> Authors

\* The record with no field (an empty JSON object, or no body at all).
EmptyRec == [f \in {} |-> ""]

\* req.body after express.json(): a JSON object with any of the fields.
Bodies ==
  UNION { {b \in [D -> Ids \cup Titles \cup Authors] :
              \A f \in D : b[f] \in FieldValues(f)} : D \in SUBSET Fields }

\* { ...a, ...b } and lodash assign(a, b): b's fields over a's.
Merge(a, b) ==
  [f \in DOMAIN a \cup DOMAIN b |-> IF f \in DOMAIN b THEN b[f] ELSE a[f]]

\* lodash's matcher for the source object { id: id }.
Matches(b, id) == "id" \in DOMAIN b /\ b["id"] = id

Matching(books, id) == {i \in 1..Len(books) : Matches(books[i], id)}

\* Index of the first element find({ id }) returns, 0 for undefined.
FindIndex(books, id) ==
  IF Matching(books, id) = {} THEN 0
  ELSE CHOOSE i \in Matching(books, id) : \A j \in Matching(books, id) : i <= j

\* Variant of Push that puts the new element first (unshift).
PushFront(books, book) == <<book>> \o books

\* push(book): the new element goes last.
Push(books, book) == Append(books, book)

\* remove({ id }): every matching element leaves the array; the removed
\* elements are the result.
Removed(books, id) == SelectSeq(books, LAMBDA b : Matches(b, id))

Remaining(books, id) == SelectSeq(books, LAMBDA b : ~Matches(b, id))

(* --------------------------- the backing file -------------------------- *)

\* JSON text of one record: its key/value pairs.
Stringify(rec) == {<<f, rec[f]>> : f \in DOMAIN rec}

ParseRec(pairs) ==
  [f \in {p[1] : p \in pairs} |-> (CHOOSE p \in pairs : p[1] = f)[2]]

\* adapter.write(db.getState()): the whole state, serialized.
Serialize(d) ==
  [hasBooks |-> TRUE, books |-> [i \in 1..Len(d.books) |-> Stringify(d.books[i])]]

\* A db.json without the books key (or no db.json: FileSync starts from {}).
NoBooksDoc == [hasBooks |-> FALSE, books |-> <<>>]

\* Variant of Defaults that sets books whether or not the key is there.
DefaultsReset(doc) == [books |-> <<>>]

\* db.defaults({ books: [] }): the default applies only to a missing key.
Defaults(doc) ==
  IF doc.hasBooks
    THEN [books |-> [i \in 1..Len(doc.books) |-> ParseRec(doc.books[i])]]
    ELSE [books |-> <<>>]

\* low(adapter) followed by db.defaults(...): the state after startup.
Startup(doc) == Defaults(doc)

(* ------------------------------ responses ------------------------------ *)

Response(status, kind, book, list) ==
  [status |-> status, kind |-> kind, book |-> book, list |-> list]

SendStatus(status) == Response(status, "status", EmptyRec, <<>>)

SendBook(status, book) == Response(status, "book", book, <<>>)

\* res.send(undefined): status 200 and no body.
SendNothing == Response(200, "none", EmptyRec, <<>>)

SendError == Response(500, "error", EmptyRec, <<>>)

Request(op, id, body, nid) == [op |-> op, id |-> id, body |-> body, nid |-> nid]

Outcome(d, f, r) == [db |-> d, file |-> f, resp |-> r]

(* ------------------------------ handlers ------------------------------- *)

\* router.get("/")
ListHandler(d, f) == Outcome(d, f, Response(200, "list", EmptyRec, d.books))

\* Variant of GetHandler without the `if (!book)` branch.
GetHandlerNo404(d, f, id) ==
  LET i == FindIndex(d.books, id)
  IN  IF i = 0 THEN Outcome(d, f, SendNothing)
      ELSE Outcome(d, f, SendBook(200, d.books[i]))

\* router.get("/:id")
GetHandler(d, f, id) ==
  LET i == FindIndex(d.books, id)
  IN  IF i = 0 THEN Outcome(d, f, SendStatus(404))
      ELSE Outcome(d, f, SendBook(200, d.books[i]))

\* router.post("/"): the body's fields are spread over the generated id;
\* push changes the state in memory, then write() rewrites the file; a
\* write that throws is answered 500 by the catch.
PostHandler(d, f, nid, body, ok) ==
  LET book == Merge([x \in {"id"} |-> nid], body)
      d2 == [books |-> Push(d.books, book)]
  IN  IF ok THEN Outcome(d2, Serialize(d2), SendBook(201, book))
      ELSE Outcome(d2, f, SendError)

\* router.put("/:id"): assign changes the found record in memory, then
\* write(); the response is find({ id: req.params.id }) evaluated again.
PutHandler(d, f, id, body, ok) ==
  LET i == FindIndex(d.books, id)
      d2 == [books |-> [d.books EXCEPT ![i] = Merge(d.books[i], body)]]
      j == FindIndex(d2.books, id)
  IN  IF i = 0 THEN Outcome(d, f, SendStatus(404))
      ELSE IF ~ok THEN Outcome(d2, f, SendError)
      ELSE IF j = 0 THEN Outcome(d2, Serialize(d2), SendNothing)
      ELSE Outcome(d2, Serialize(d2), SendBook(200, d2.books[j]))

\* router.delete("/:id"): remove, write, then 404 when nothing was removed.
\* There is no try/catch: a write that throws reaches Express's error
\* handler, which answers 500.
DeleteHandler(d, f, id, ok) ==
  LET d2 == [books |-> Remaining(d.books, id)]
  IN  IF ~ok THEN Outcome(d2, f, SendError)
      ELSE IF Len(Removed(d.books, id)) = 0
        THEN Outcome(d2, Serialize(d2), SendStatus(404))
      ELSE Outcome(d2, Serialize(d2), SendStatus(200))

(* --------------------- sequential requests: Spec ----------------------- *)

ARecord == [f \in Fields |-> IF f = "id" THEN "a" ELSE IF f = "title" THEN "T1" ELSE "A1"]

\* What db.json may hold when the process starts.
InitialDisks ==
  {NoBooksDoc, Serialize([books |-> <<>>]), Serialize([books |-> <<ARecord>>])}

NoRequest == Request("START", "", EmptyRec, "")

NoSlots == [s \in {} |-> NoRequest]

\* index.js: the store is loaded, defaulted and written before listen().
Init ==
  \E disk \in InitialDisks :
    /\ db = Startup(disk)
    /\ file = Serialize(Startup(disk))
    /\ pre = [db |-> Startup(disk), file |-> Serialize(Startup(disk))]
    /\ req = NoRequest
    /\ resp = SendStatus(0)
    /\ faults = 0
    /\ inflight = NoSlots
    /\ base = Startup(disk)
    /\ handled = <<>>

\* Variant of Collection: a copy of the store taken at startup.
StaleCollection == base

\* The store every handler works on: req.app.db, the one shared instance,
\* read when the handler runs.
Collection == db

Serve(r, out, ok) ==
  /\ ok \/ faults < MaxFaults
  /\ faults' = IF ok THEN faults ELSE faults + 1
  /\ pre' = [db |-> db, file |-> file]
  /\ req' = r
  /\ db' = out.db
  /\ file' = out.file
  /\ resp' = out.resp
  /\ UNCHANGED <<inflight, base, handled>>

List == Serve(Request("LIST", "", EmptyRec, ""), ListHandler(Collection, file), TRUE)

Get == \E id \in Ids : Serve(Request("GET", id, EmptyRec, ""), GetHandler(Collection, file, id), TRUE)

Post(oks) ==
  /\ Len(db.books) < MaxBooks
  /\ \E nid \in Ids, body \in Bodies, ok \in oks :
       Serve(Request("POST", "", body, nid), PostHandler(Collection, file, nid, body, ok), ok)

Put(oks) ==
  \E id \in Ids, body \in Bodies, ok \in oks :
    Serve(Request("PUT", id, body, ""), PutHandler(Collection, file, id, body, ok), ok)

Delete(oks) ==
  \E id \in Ids, ok \in oks :
    Serve(Request("DELETE", id, EmptyRec, ""), DeleteHandler(Collection, file, id, ok), ok)

\* The process is stopped and started again: index.js runs on the file.
Restart ==
  Serve(Request("RESTART", "", EmptyRec, ""),
        Outcome(Startup(file), Serialize(Startup(file)), SendStatus(0)), TRUE)

Next ==
  \/ List
  \/ Get
  \/ Post({TRUE})
  \/ Put({TRUE})
  \/ Delete({TRUE})
  \/ Restart

Spec == Init /\ [][Next]_vars

(* ------------------- failing file writes: SpecFault -------------------- *)

\* As Spec, but writeFileSync may throw (disk full, no permission); the
\* file then keeps its prior contents.
NextFault ==
  \/ List
  \/ Get
  \/ Post(BOOLEAN)
  \/ Put(BOOLEAN)
  \/ Delete(BOOLEAN)
  \/ Restart

SpecFault == Init /\ [][NextFault]_vars

(* ------------------ requests in flight: SpecConc ----------------------- *)

\* Two connections, each with one mutating request.
Slots == {1, 2}

Mutations ==
  {Request("POST", "", body, "") : body \in Bodies}
    \cup {Request("PUT", id, body, "") : id \in Ids, body \in Bodies}
    \cup {Request("DELETE", id, EmptyRec, "") : id \in Ids}

\* The handler the router dispatches request r to.
Dispatch(d, f, r) ==
  CASE r.op = "POST" -> PostHandler(d, f, r.nid, r.body, TRUE)
    [] r.op = "PUT" -> PutHandler(d, f, r.id, r.body, TRUE)
    [] r.op = "DELETE" -> DeleteHandler(d, f, r.id, TRUE)

InitConc ==
  \E disk \in InitialDisks :
    /\ db = Startup(disk)
    /\ file = Serialize(Startup(disk))
    /\ pre = [db |-> Startup(disk), file |-> Serialize(Startup(disk))]
    /\ req = NoRequest
    /\ resp = SendStatus(0)
    /\ faults = 0
    /\ inflight = NoSlots
    /\ base = Startup(disk)
    /\ handled = <<>>

Answered == {handled[k].slot : k \in 1..Len(handled)}

\* A request has been received and parsed; its handler has not run yet.
Accept ==
  \E s \in Slots \ DOMAIN inflight, r \in Mutations :
    /\ inflight' = [t \in DOMAIN inflight \cup {s} |-> IF t = s THEN r ELSE inflight[t]]
    /\ UNCHANGED <<db, file, pre, req, resp, faults, base, handled>>

\* The event loop runs the handler of one waiting request to completion:
\* every call in it is synchronous (FileSync), so no other handler runs
\* between its read of the store and its write of the file.
Handle ==
  \E s \in DOMAIN inflight \ Answered, nid \in Ids :
    LET r == [inflight[s] EXCEPT !.nid = IF inflight[s].op = "POST" THEN nid ELSE ""]
        out == Dispatch(Collection, file, r)
    IN  /\ pre' = [db |-> db, file |-> file]
        /\ req' = r
        /\ db' = out.db
        /\ file' = out.file
        /\ resp' = out.resp
        /\ handled' = Append(handled,
                             [slot |-> s, r |-> r, resp |-> out.resp,
                              waiting |-> DOMAIN inflight \ (Answered \cup {s})])
        /\ UNCHANGED <<faults, inflight, base>>

NextConc ==
  \/ Accept
  \/ Handle

SpecConc == InitConc /\ [][NextConc]_vars

(* ------------------------------- claims -------------------------------- *)

IdOf(b) == IF "id" \in DOMAIN b THEN b["id"] ELSE ""

\* What GET /books and GET /books/{id} would answer in the current state.
ListNow == ListHandler(db, file).resp

ListBefore == ListHandler(pre.db, pre.file).resp

GetNow(id) == GetHandler(db, file, id).resp

GetBefore(id) == GetHandler(pre.db, pre.file, id).resp

Created == req.op = "POST" /\ resp.status = 201

Updated == req.op = "PUT" /\ resp.status = 200

\* C1: after a POST answered 201 with record r, GET /books/{r.id} is
\* answered 200 with a record equal to r, whatever the request body was.
C1_PostThenGet == Created => GetNow(IdOf(resp.book)) = SendBook(200, resp.book)

\* C2: a PUT on an existing record leaves the record's id as it was, and
\* the 200 response carries that id, also when the body names an id.
C2_IdImmutable ==
  Updated =>
    LET i == FindIndex(pre.db.books, req.id)
    IN  /\ IdOf(db.books[i]) = IdOf(pre.db.books[i])
        /\ resp.kind = "book"
        /\ IdOf(resp.book) = IdOf(pre.db.books[i])

\* C3: the id of a record created by POST is non-empty and differs from the
\* id of every record already in the collection, so that no two records of
\* the collection share an id.
C3_FreshId ==
  /\ Created =>
       /\ IdOf(resp.book) # ""
       /\ \A i \in 1..Len(pre.db.books) : IdOf(pre.db.books[i]) # IdOf(resp.book)
  /\ \A i, j \in 1..Len(db.books) : i # j => IdOf(db.books[i]) # IdOf(db.books[j])

\* The record at position i after a PUT with body B is the record before it
\* with B's fields over it; every other position is as before.
MergedAt(i) ==
  /\ Len(db.books) = Len(pre.db.books)
  /\ DOMAIN db.books[i] = DOMAIN pre.db.books[i] \cup DOMAIN req.body
  /\ \A f \in DOMAIN db.books[i] :
       db.books[i][f] = IF f \in DOMAIN req.body THEN req.body[f] ELSE pre.db.books[i][f]
  /\ \A k \in 1..Len(db.books) : k # i => db.books[k] = pre.db.books[k]

\* C4: PUT on an existing record is a shallow merge of the body over the
\* targeted record, the other records and the order are unchanged, and the
\* 200 response body is the merged record.
C4_ShallowMerge ==
  Updated =>
    LET i == FindIndex(pre.db.books, req.id)
    IN  /\ MergedAt(i)
        /\ resp = SendBook(200, db.books[i])

Without(s, i) == [k \in 1..(Len(s) - 1) |-> IF k < i THEN s[k] ELSE s[k + 1]]

\* C6: a DELETE removes no record or exactly one; it is answered 200 when
\* one was removed and 404 when none was; the other records keep their
\* content and order.
C6_DeleteAtMostOne ==
  req.op = "DELETE" =>
    \/ resp.status = 404 /\ db.books = pre.db.books
    \/ /\ resp.status = 200
       /\ \E i \in 1..Len(pre.db.books) : db.books = Without(pre.db.books, i)

\* C7: after a POST answered 201 with record b, GET /books returns the list
\* it returned before the POST with b appended as the last element.
C7_AppendOrder ==
  Created =>
    /\ ListNow.status = 200
    /\ ListNow.list = Append(ListBefore.list, resp.book)

C7_Witness ==
  /\ Created
  /\ Len(ListBefore.list) >= 1
  /\ ListBefore.list[1] # resp.book

C9_NoPartialEffect ==
  (req.op \in {"POST", "PUT"} /\ resp.status = 500) =>
    /\ file = pre.file
    /\ ListNow = ListBefore
    /\ \A id \in Ids : GetNow(id) = GetBefore(id)

\* The requests of `done`, handled one after the other from store d.
RECURSIVE Replay(_, _)
Replay(d, done) ==
  IF done = <<>> THEN Outcome(d, Serialize(d), SendStatus(0))
  ELSE LET before == Replay(d, SubSeq(done, 1, Len(done) - 1))
       IN  Dispatch(before.db, before.file, done[Len(done)].r)

BothAnswered == Answered = Slots

Succeeded == \A k \in 1..Len(handled) : handled[k].resp.status \in {200, 201}

\* Both requests were waiting together before either handler ran.
Overlapped == Len(handled) >= 1 /\ handled[1].waiting # {}

\* An update is lost: both requests were answered with success, and the
\* stored collection is not what the two handlers produce one after the
\* other, or an answer is not the one the handler gives in that order.
LostUpdate ==
  /\ BothAnswered
  /\ Succeeded
  /\ \/ db # Replay(base, handled).db
     \/ file # Serialize(Replay(base, handled).db)
     \/ \E k \in 1..Len(handled) : handled[k].resp # Replay(base, SubSeq(handled, 1, k)).resp

====
